---- MODULE Spec2Model ----
(***************************************************************************)
(* Model of src/python/ml_runner.py: main() and process_csv().             *)
(*                                                                         *)
(* One invocation of the script is a walk of pc through the statements of  *)
(* main and process_csv.  The input file is a small CSV given as raw cell  *)
(* tokens; pandas' type inference, dropna and select_dtypes, and sklearn's *)
(* train_test_split, LinearRegression and metric validation are modelled   *)
(* at the call sites by what the calls do to the row/column structure.     *)
(* The numeric values of coefficients and metrics are kept symbolic (a     *)
(* term naming the rows they are computed from); the claims checked here   *)
(* are about structure, sizes, errors and output, not about arithmetic.    *)
(* Row positions and column positions are 1-based here, 0-based in Python. *)
(***************************************************************************)
EXTENDS Integers, Sequences, FiniteSets, TLC

\* ------------------------------------------------------------ bounds ----
MaxCols == 3
MaxRows == 11
MaxRuns == 2

\* ---------------------------------------------------------- constants ---
MIN_NUMERIC_COLUMNS == 2
MIN_SAMPLES == 10
random_state == 42

\* ------------------------------------------------------------- state ----
VARIABLES
    argc,             \* len(sys.argv)
    file,             \* the file at sys.argv[1]: MissingFile or raw CSV content
    run,              \* number of the current invocation on this input
    pc,               \* position in main / process_csv
    df,               \* line 16
    original_rows,    \* line 19
    df_clean,         \* line 22
    numeric_columns,  \* line 25
    feature_columns,  \* line 34
    target_column,    \* line 35
    X_train,          \* line 45: index labels of the training rows, in order
    X_test,           \* line 45: index labels of the test rows, in order
    model,            \* line 50-51
    y_pred,           \* line 54
    metrics,          \* line 57-59
    results,          \* line 62
    exc,              \* the exception in flight / caught (message parts)
    stdout,           \* records printed to standard output
    stderr,           \* records printed to standard error
    status,           \* process exit status (as text), Running before exit
    trace,            \* statements of process_csv executed in this invocation
    first             \* observable outcome of the first invocation

locals == <<df, original_rows, df_clean, numeric_columns, feature_columns,
            target_column, X_train, X_test, model, y_pred, metrics, results>>
io     == <<stdout, stderr, status>>
vars   == <<argc, file, run, pc, locals, exc, io, trace, first>>

\* an unbound name / a value not produced yet
NoValue  == "None"
NoFrame  == [columns |-> <<>>, dtypes |-> <<>>, rows |-> <<>>]
NoList   == <<>>
\* no exception
NoError  == <<>>
\* the process has not exited
Running  == "running"

\* a path at which there is no readable file
MissingFile == [exists |-> FALSE, header |-> <<>>, rows |-> <<>>]

\* Column names of the header row, by position.
ColumnNames == <<"a", "b", "c", "d", "e">>

\* Raw cell tokens of the CSV text.
\*   num: a finite number   inf: the token "inf"   na: empty   str: other text
Cells == {"num", "inf", "na", "str"}

\* ----------------------------------------------------------- messages ---
UsageMessage      == <<"Usage: python ml_runner.py <csv_file_path>">>
ColumnsMessage    == <<"Dataset must have at least 2 numeric columns for regression analysis">>
SamplesMessage    == <<"Dataset must have at least 10 samples after cleaning">>
WrapPrefix        == "ML processing error: "
FileNotFoundMsg   == <<"No such file or directory">>
EmptyDataMsg      == <<"No columns to parse from file">>
InfInXMsg         == <<"Input X contains infinity or a value too large for dtype('float64').">>
InfInYMsg         == <<"Input y contains infinity or a value too large for dtype('float64').">>
InfInTargetsMsg   == <<"Input contains infinity or a value too large for dtype('float64').">>

\* ------------------------------------------------------------ helpers ---
Range(s) == {s[i] : i \in DOMAIN s}

RECURSIVE SeqSelect(_, _)
\* the elements of s at the positions listed in idx, in idx order
SeqSelect(s, idx) ==
    IF idx = <<>> THEN <<>>
    ELSE <<s[Head(idx)]>> \o SeqSelect(s, Tail(idx))

\* ----------------------------------------------------- input family -----
NoBad == [row |-> 0, col |-> 0, cell |-> "num"]

\* A CSV with header ColumnNames[1..Len(kinds)] and n data rows; column c
\* holds kinds[c] tokens except for the one cell named by bad.
FileTable(kinds, n, bad) ==
    [exists |-> TRUE,
     header |-> SubSeq(ColumnNames, 1, Len(kinds)),
     rows   |-> [r \in 1..n |->
                   [c \in 1..Len(kinds) |->
                      IF bad.row = r /\ bad.col = c THEN bad.cell
                                                    ELSE kinds[c]]]]

Files ==
    {MissingFile} \cup
    { FileTable(kinds, n, bad) :
        <<kinds, n, bad>> \in
          { t \in (UNION {[1..L -> {"num", "str"}] : L \in 0..MaxCols})
                  \X (0..MaxRows)
                  \X ({NoBad} \cup [row : 1..MaxRows, col : 1..MaxCols,
                                    cell : {"na", "inf"}]) :
              /\ (Len(t[1]) = 0 => t[2] = 0)
              /\ (t[3] # NoBad => t[3].row <= t[2] /\ t[3].col <= Len(t[1])) } }

\* ------------------------------------------------------------ pandas ----
\* pd.read_csv type inference: a column is numeric when it has at least one
\* row and every cell parses as a float (empty cells become NaN); a column
\* with no rows, or with any other text, is object.
InferDtype(rows, c) ==
    IF Len(rows) > 0 /\ \A r \in DOMAIN rows : rows[r][c] # "str"
    THEN "Numeric" ELSE "Other"

\* pd.read_csv(file_path) on a readable, non-empty file: a frame with the
\* header's columns, inferred dtypes and a RangeIndex as row labels.
read_csv(f) ==
    [columns |-> f.header,
     dtypes  |-> [c \in DOMAIN f.header |-> InferDtype(f.rows, c)],
     rows    |-> [r \in DOMAIN f.rows |-> [label |-> r, cells |-> f.rows[r]]]]

\* the exception read_csv raises, or NoError
read_csv_error(f) ==
    IF ~f.exists THEN FileNotFoundMsg
    ELSE IF Len(f.header) = 0 THEN EmptyDataMsg
    ELSE NoError

HasNa(row) == \E c \in DOMAIN row.cells : row.cells[c] = "na"

\* dropna(subset=numeric columns): only a missing numeric value drops a row
dropna_NumericOnly(d) ==
    [d EXCEPT !.rows =
        SelectSeq(d.rows,
                  LAMBDA row : ~\E c \in DOMAIN row.cells :
                                   d.dtypes[c] = "Numeric" /\ row.cells[c] = "na")]

\* df.dropna(): keep the rows with no missing value in any column; dtypes,
\* columns and the surviving rows' labels are unchanged.
dropna(d) ==
    [d EXCEPT !.rows = SelectSeq(d.rows, LAMBDA row : ~HasNa(row))]

RECURSIVE NumericPositions(_, _)
NumericPositions(dtypes, c) ==
    IF c > Len(dtypes) THEN <<>>
    ELSE (IF dtypes[c] = "Numeric" THEN <<c>> ELSE <<>>)
         \o NumericPositions(dtypes, c + 1)

\* d.select_dtypes(include=[np.number]).columns.tolist()
select_dtypes_columns(d) ==
    SeqSelect(d.columns, NumericPositions(d.dtypes, 1))

len(d) == Len(d.rows)

Labels(d) == [i \in DOMAIN d.rows |-> d.rows[i].label]

\* position of a column name in a frame
ColPos(d, name) == CHOOSE c \in DOMAIN d.columns : d.columns[c] = name

\* the cell of the row labelled l in column name
CellAt(d, l, name) ==
    LET row == CHOOSE r \in Range(d.rows) : r.label = l
    IN  row.cells[ColPos(d, name)]

\* ----------------------------------------------------------- sklearn ---
\* Stand-in for the seeded generator behind random_state: a linear
\* congruential step.  What the model keeps of the library's generator is
\* that the permutation is a function of the seed and the row count only.
NextSeed(s) == (s * 75 + 74) % 65537

RECURSIVE Shuffle(_, _, _)
\* Fisher-Yates shuffle of s[1..i], drawing from the generator state seed
Shuffle(s, i, seed) ==
    IF i <= 1 THEN s
    ELSE LET j == 1 + (seed % i)
             t == [s EXCEPT ![i] = s[j], ![j] = s[i]]
         IN  Shuffle(t, i - 1, NextSeed(seed))

\* RandomState(seed).permutation(n)
permutation(n, seed) == Shuffle([i \in 1..n |-> i], n, NextSeed(seed))

\* floor instead of ceil for the test size
n_test_Floor(n) == (2 * n) \div 10

\* ceil(test_size * n_samples) with test_size = 0.2; the product is exact
\* in floating point whenever n is a multiple of 5, so the integer
\* computation agrees with the float one
n_test(n) == (2 * n + 9) \div 10

\* train_size is None: the complement of the test set
n_train(n) == n - n_test(n)

\* a seed that differs from one invocation to the next
SplitSeed_PerRun == random_state + run

\* the seed train_test_split gets at line 46
SplitSeed == random_state

\* the training slice starts one position early
TrainPositions_Overlap(perm, n) ==
    SubSeq(perm, n_test(n), n_test(n) + n_train(n) - 1)

\* ShuffleSplit: the first n_test permuted positions are the test set, the
\* next n_train the training set
TestPositions(perm, n)  == SubSeq(perm, 1, n_test(n))
TrainPositions(perm, n) == SubSeq(perm, n_test(n) + 1, n_test(n) + n_train(n))

HasInf(d, labels, cols) ==
    \E i \in DOMAIN labels, c \in DOMAIN cols :
        CellAt(d, labels[i], cols[c]) = "inf"

\* LinearRegression().fit(X_train, y_train) validates X, then y
fit_error(d, train, features, target) ==
    IF HasInf(d, train, features) THEN InfInXMsg
    ELSE IF HasInf(d, train, <<target>>) THEN InfInYMsg
    ELSE NoError

\* model.predict(X_test) validates X
predict_error(d, test, features) ==
    IF HasInf(d, test, features) THEN InfInXMsg ELSE NoError

\* r2_score(y_test, y_pred) validates the targets; it is the first of the
\* three metric calls
metrics_error(d, test, target) ==
    IF HasInf(d, test, <<target>>) THEN InfInTargetsMsg ELSE NoError

\* ------------------------------------------------------- process_csv ----
\* the gate rejects exactly 2 numeric columns as well
TooFewColumns_AtMost(cols) == Len(cols) <= MIN_NUMERIC_COLUMNS

\* the gate only rejects a table with no numeric column
TooFewColumns_OnlyEmpty(cols) == Len(cols) < 1

TooFewColumns(cols) == Len(cols) < MIN_NUMERIC_COLUMNS

\* the gate rejects exactly 10 rows as well
TooFewSamples_AtMost(n) == n <= MIN_SAMPLES

TooFewSamples(n) == n < MIN_SAMPLES

FeatureColumns(cols) == SubSeq(cols, 1, Len(cols) - 1)

\* the first numeric column as the target
TargetColumn_First(cols) == cols[1]

TargetColumn(cols) == cols[Len(cols)]

\* a bare re-raise: the message is passed on without the prefix
Wrap_Bare(m) == m

\* f"ML processing error: {str(e)}"
Wrap(m) == <<WrapPrefix>> \o m

Raise(m) == /\ exc' = m
            /\ pc' = "except"

Ran(stage) == trace' = Append(trace, stage)

TypeDefaults ==
    /\ df = NoFrame /\ original_rows = NoValue /\ df_clean = NoFrame
    /\ numeric_columns = NoList /\ feature_columns = NoList
    /\ target_column = NoValue /\ X_train = NoList /\ X_test = NoList
    /\ model = NoValue /\ y_pred = NoValue /\ metrics = NoValue
    /\ results = NoValue

Init ==
    /\ argc \in 1..3
    /\ file \in Files
    /\ run = 1
    /\ pc = "main"
    /\ TypeDefaults
    /\ exc = NoError
    /\ stdout = <<>> /\ stderr = <<>> /\ status = Running
    /\ trace = <<>>
    /\ first = [stdout |-> <<>>, stderr |-> <<>>, status |-> Running,
                train |-> NoList, test |-> NoList]

\* lines 83-87
Main ==
    /\ pc = "main"
    /\ IF argc # 2
       THEN /\ stdout' = Append(stdout, [error |-> UsageMessage])
            /\ status' = "1"
            /\ pc' = "exited"
       ELSE /\ pc' = "read_csv"
            /\ UNCHANGED <<stdout, status>>
    /\ UNCHANGED <<argc, file, run, locals, exc, stderr, trace, first>>

\* lines 16-19
ReadCsv ==
    /\ pc = "read_csv"
    /\ Ran("read_csv")
    /\ IF read_csv_error(file) # NoError
       THEN /\ Raise(read_csv_error(file))
            /\ UNCHANGED <<df, original_rows>>
       ELSE /\ df' = read_csv(file)
            /\ original_rows' = len(read_csv(file))
            /\ pc' = "dropna"
            /\ UNCHANGED exc
    /\ UNCHANGED <<argc, file, run, df_clean, numeric_columns, feature_columns,
                   target_column, X_train, X_test, model, y_pred, metrics,
                   results, io, first>>

\* line 22
DropNa ==
    /\ pc = "dropna"
    /\ Ran("dropna")
    /\ df_clean' = dropna(df)
    /\ pc' = "select_dtypes"
    /\ UNCHANGED <<argc, file, run, df, original_rows, numeric_columns,
                   feature_columns, target_column, X_train, X_test, model,
                   y_pred, metrics, results, exc, io, first>>

\* lines 25-30
SelectDtypes ==
    /\ pc = "select_dtypes"
    /\ Ran("select_dtypes")
    /\ numeric_columns' = select_dtypes_columns(df_clean)
    /\ IF TooFewColumns(select_dtypes_columns(df_clean))
       THEN Raise(ColumnsMessage)
       ELSE /\ pc' = "select_columns"
            /\ UNCHANGED exc
    /\ UNCHANGED <<argc, file, run, df, original_rows, df_clean,
                   feature_columns, target_column, X_train, X_test, model,
                   y_pred, metrics, results, io, first>>

\* lines 34-38
SelectColumns ==
    /\ pc = "select_columns"
    /\ Ran("select_columns")
    /\ feature_columns' = FeatureColumns(numeric_columns)
    /\ target_column' = TargetColumn(numeric_columns)
    /\ pc' = "check_samples"
    /\ UNCHANGED <<argc, file, run, df, original_rows, df_clean,
                   numeric_columns, X_train, X_test, model, y_pred, metrics,
                   results, exc, io, first>>

\* lines 41-42; X has the rows of df_clean
CheckSamples ==
    /\ pc = "check_samples"
    /\ Ran("check_samples")
    /\ IF TooFewSamples(len(df_clean))
       THEN Raise(SamplesMessage)
       ELSE /\ pc' = "train_test_split"
            /\ UNCHANGED exc
    /\ UNCHANGED <<argc, file, run, locals, io, first>>

\* lines 45-47
TrainTestSplit ==
    /\ pc = "train_test_split"
    /\ Ran("train_test_split")
    /\ LET n    == len(df_clean)
           perm == permutation(n, SplitSeed)
       IN  /\ X_train' = SeqSelect(Labels(df_clean), TrainPositions(perm, n))
           /\ X_test'  = SeqSelect(Labels(df_clean), TestPositions(perm, n))
    /\ pc' = "fit"
    /\ UNCHANGED <<argc, file, run, df, original_rows, df_clean,
                   numeric_columns, feature_columns, target_column, model,
                   y_pred, metrics, results, exc, io, first>>

\* lines 50-51
Fit ==
    /\ pc = "fit"
    /\ Ran("fit")
    /\ LET e == fit_error(df_clean, X_train, feature_columns, target_column)
       IN  IF e # NoError
           THEN /\ Raise(e)
                /\ UNCHANGED model
           ELSE /\ model' = [fitted_on |-> X_train,
                             features  |-> feature_columns,
                             target    |-> target_column]
                /\ pc' = "predict"
                /\ UNCHANGED exc
    /\ UNCHANGED <<argc, file, run, df, original_rows, df_clean,
                   numeric_columns, feature_columns, target_column, X_train,
                   X_test, y_pred, metrics, results, io, first>>

\* line 54
Predict ==
    /\ pc = "predict"
    /\ Ran("predict")
    /\ LET e == predict_error(df_clean, X_test, feature_columns)
       IN  IF e # NoError
           THEN /\ Raise(e)
                /\ UNCHANGED y_pred
           ELSE /\ y_pred' = [model |-> model, rows |-> X_test]
                /\ pc' = "metrics"
                /\ UNCHANGED exc
    /\ UNCHANGED <<argc, file, run, df, original_rows, df_clean,
                   numeric_columns, feature_columns, target_column, X_train,
                   X_test, model, metrics, results, io, first>>

\* lines 57-59
Metrics ==
    /\ pc = "metrics"
    /\ Ran("metrics")
    /\ LET e == metrics_error(df_clean, X_test, target_column)
       IN  IF e # NoError
           THEN /\ Raise(e)
                /\ UNCHANGED metrics
           ELSE /\ metrics' = [r2  |-> <<"r2_score", y_pred>>,
                               mae |-> <<"mean_absolute_error", y_pred>>,
                               mse |-> <<"mean_squared_error", y_pred>>]
                /\ pc' = "results"
                /\ UNCHANGED exc
    /\ UNCHANGED <<argc, file, run, df, original_rows, df_clean,
                   numeric_columns, feature_columns, target_column, X_train,
                   X_test, model, y_pred, results, io, first>>

\* lines 62-77
Results ==
    /\ pc = "results"
    /\ Ran("results")
    /\ results' =
         [r2_score |-> metrics.r2,
          mae      |-> metrics.mae,
          mse      |-> metrics.mse,
          dataset_info |->
            [total_rows          |-> original_rows,
             rows_after_cleaning |-> len(df_clean),
             feature_columns     |-> Len(feature_columns),
             target_column       |-> target_column,
             feature_names       |-> feature_columns,
             train_size          |-> Len(X_train),
             test_size           |-> Len(X_test)]]
    /\ pc' = "returned"
    /\ UNCHANGED <<argc, file, run, df, original_rows, df_clean,
                   numeric_columns, feature_columns, target_column, X_train,
                   X_test, model, y_pred, metrics, exc, io, first>>

\* lines 79-80
Except ==
    /\ pc = "except"
    /\ exc' = Wrap(exc)
    /\ pc' = "main_except"
    /\ UNCHANGED <<argc, file, run, locals, io, trace, first>>

\* lines 90-91, then the normal end of the process
MainOutput ==
    /\ pc = "returned"
    /\ stdout' = Append(stdout, results)
    /\ status' = "0"
    /\ pc' = "exited"
    /\ UNCHANGED <<argc, file, run, locals, exc, stderr, trace, first>>

\* lines 92-94
MainExcept ==
    /\ pc = "main_except"
    /\ stderr' = Append(stderr, [error |-> exc])
    /\ status' = "1"
    /\ pc' = "exited"
    /\ UNCHANGED <<argc, file, run, locals, exc, stdout, trace, first>>

\* what an observer of one invocation sees, with the partition it used
Outcome ==
    [stdout |-> stdout, stderr |-> stderr, status |-> status,
     train  |-> X_train, test |-> X_test]

\* the script is invoked again on the same file with the same arguments:
\* a new process, nothing carried over (the first outcome is kept only to
\* compare against)
Reinvoke ==
    /\ pc = "exited"
    /\ run < MaxRuns
    /\ run' = run + 1
    /\ first' = IF run = 1 THEN Outcome ELSE first
    /\ pc' = "main"
    /\ df' = NoFrame /\ original_rows' = NoValue /\ df_clean' = NoFrame
    /\ numeric_columns' = NoList /\ feature_columns' = NoList
    /\ target_column' = NoValue /\ X_train' = NoList /\ X_test' = NoList
    /\ model' = NoValue /\ y_pred' = NoValue /\ metrics' = NoValue
    /\ results' = NoValue
    /\ exc' = NoError
    /\ stdout' = <<>> /\ stderr' = <<>> /\ status' = Running
    /\ trace' = <<>>
    /\ UNCHANGED <<argc, file>>

Next ==
    \/ Main
    \/ ReadCsv
    \/ DropNa
    \/ SelectDtypes
    \/ SelectColumns
    \/ CheckSamples
    \/ TrainTestSplit
    \/ Fit
    \/ Predict
    \/ Metrics
    \/ Results
    \/ Except
    \/ MainOutput
    \/ MainExcept
    \/ Reinvoke

Spec == Init /\ [][Next]_vars

TypeOK ==
    /\ argc \in 1..3
    /\ run \in 1..MaxRuns
    /\ status \in {Running, "0", "1"}
    /\ Len(stdout) <= 1 /\ Len(stderr) <= 1
    /\ \A r \in DOMAIN file.rows :
          \A c \in DOMAIN file.rows[r] : file.rows[r][c] \in Cells

\* ============================================================ claims ====
Last(s) == s[Len(s)]

\* the statements of process_csv in program order
StageOrder ==
    <<"read_csv", "dropna", "select_dtypes", "select_columns", "check_samples",
      "train_test_split", "fit", "predict", "metrics", "results">>

\* process_csv has returned or raised to main
ProcessCsvDone == pc \in {"returned", "main_except"}

\* the file was read into a table
Loaded == file.exists /\ Len(file.header) > 0

\* labels of the file's rows that have no missing value in any column
CompleteRows ==
    {r \in DOMAIN file.rows :
        \A c \in DOMAIN file.rows[r] : file.rows[r][c] # "na"}

\* positions of the columns of the frame whose dtype is numeric
NumericCols(d) == {c \in DOMAIN d.dtypes : d.dtypes[c] = "Numeric"}

FailedWith(m) == pc = "main_except" /\ exc = <<WrapPrefix>> \o m

Max(S) == CHOOSE x \in S : \A y \in S : y <= x

\* C1: once the table is loaded, process_csv fails with the
\* "at least 2 numeric columns" error exactly when fewer than 2 numeric
\* columns remain after cleaning; with exactly 2 the run continues past
\* the gate.
C1_ColumnGate ==
    (ProcessCsvDone /\ Loaded) =>
        LET k == Cardinality(NumericCols(df_clean))
        IN  /\ FailedWith(ColumnsMessage) <=> k < 2
            /\ k = 2 => "select_columns" \in Range(trace)

C1_Witness ==
    /\ pc = "returned"
    /\ Cardinality(NumericCols(df_clean)) = 2

C3_AsStated ==
    (pc = "returned") =>
        LET n == len(df_clean)
            r == (8 * n + 5) \div 10
        IN  /\ Len(X_train) = r /\ Len(X_test) = n - r
            /\ results.dataset_info.train_size = r
            /\ results.dataset_info.test_size = n - r

\* C3 amended: for n >= 10 cleaned rows, TEST has ceil(n * 0.2) rows and
\* TRAIN the remaining n - ceil(n * 0.2) = floor(n * 0.8) rows, and
\* train_size / test_size report these sizes.
C3_SplitSizes ==
    (pc = "returned") =>
        LET n == len(df_clean)
            f == (4 * n) \div 5
        IN  /\ n >= 10
            /\ Len(X_train) = f /\ Len(X_test) = n - f
            /\ results.dataset_info.train_size = f
            /\ results.dataset_info.test_size = n - f

C3_Witness ==
    /\ pc = "returned"
    /\ len(df_clean) = 11
    /\ results.dataset_info.train_size = 8
    /\ results.dataset_info.test_size = 3

\* C4: in a successful run TRAIN and TEST are disjoint, hold no row twice,
\* together are exactly the rows that survived cleaning, the reported sizes
\* add up to rows_after_cleaning, and TEST is a fifth of the rows to within
\* one row.
C4_Partition ==
    (pc = "returned") =>
        LET info == results.dataset_info
        IN  /\ Range(X_train) \cap Range(X_test) = {}
            /\ Range(X_train) \cup Range(X_test) = CompleteRows
            /\ Cardinality(Range(X_train)) = Len(X_train)
            /\ Cardinality(Range(X_test)) = Len(X_test)
            /\ info.train_size + info.test_size = info.rows_after_cleaning
            /\ info.rows_after_cleaning = Cardinality(CompleteRows)
            /\ 5 * info.test_size - info.rows_after_cleaning \in 0..4

C4_Witness ==
    /\ pc = "returned"
    /\ Len(X_train) = 8
    /\ Len(X_test) = 2
    /\ Cardinality(CompleteRows) < Len(file.rows)

\* C5: past the column gate, the target is the last numeric column in file
\* order, the features are all the other numeric columns in file order, the
\* feature count is the numeric column count minus 1, and the target is not
\* a feature; the result record reports exactly these.
C5_LastColumnIsTarget ==
    ("select_columns" \in Range(trace)) =>
        LET P == NumericCols(df)
        IN  /\ P # {}
            /\ target_column = df.columns[Max(P)]
            /\ Len(feature_columns) = Cardinality(P) - 1
            /\ {ColPos(df, feature_columns[i]) : i \in DOMAIN feature_columns}
                 = P \ {Max(P)}
            /\ \A i, j \in DOMAIN feature_columns :
                 i < j => ColPos(df, feature_columns[i])
                            < ColPos(df, feature_columns[j])
            /\ target_column \notin Range(feature_columns)
            /\ pc = "returned" =>
                 /\ results.dataset_info.target_column = target_column
                 /\ results.dataset_info.feature_names = feature_columns
                 /\ results.dataset_info.feature_columns = Cardinality(P) - 1

C5_Witness ==
    /\ pc = "returned"
    /\ df.dtypes = <<"Numeric", "Numeric", "Other">>
    /\ target_column = "b"
    /\ feature_columns = <<"a">>

IsResultRecord(r) == DOMAIN r = {"r2_score", "mae", "mse", "dataset_info"}
IsErrorRecord(r)  == DOMAIN r = {"error"}

\* C6: every invocation that has exited emitted exactly one record: a
\* result record on standard output with status 0, or an error record with
\* the single field "error" on standard error with a non-zero status.
C6_OneRecord ==
    (pc = "exited") =>
        \/ /\ status = "0"
           /\ Len(stdout) = 1 /\ IsResultRecord(stdout[1])
           /\ stderr = <<>>
        \/ /\ status # "0"
           /\ Len(stderr) = 1 /\ IsErrorRecord(stderr[1])
           /\ stdout = <<>>

C8_DropNa ==
    ("dropna" \in Range(trace)) =>
        /\ Range(Labels(df_clean)) = CompleteRows
        /\ len(df_clean) = Cardinality(CompleteRows)
        /\ original_rows = Len(file.rows)
        /\ len(df_clean) <= original_rows
        /\ df = read_csv(file)
        /\ "train_test_split" \in Range(trace) => Cardinality(CompleteRows) >= 10
        /\ FailedWith(SamplesMessage) => Cardinality(CompleteRows) < 10
        /\ pc = "returned" =>
             /\ results.dataset_info.total_rows = Len(file.rows)
             /\ results.dataset_info.rows_after_cleaning
                  = Cardinality(CompleteRows)

\* a row is dropped because of a missing value in a non-numeric column
C8_Witness ==
    /\ FailedWith(SamplesMessage)
    /\ original_rows = 10
    /\ len(df_clean) = 9
    /\ \E r \in DOMAIN file.rows, c \in DOMAIN file.header :
          file.rows[r][c] = "na" /\ df.dtypes[c] = "Other"

\* the pipeline stage (spec section 2) a statement of process_csv belongs to
Component(stmt) ==
    CASE stmt = "read_csv"                          -> "load"
      [] stmt \in {"dropna", "select_dtypes"}       -> "clean"
      [] stmt \in {"select_columns", "check_samples"} -> "select"
      [] stmt = "train_test_split"                  -> "split"
      [] stmt \in {"fit", "predict"}                -> "fit"
      [] stmt = "metrics"                           -> "metrics"
      [] OTHER                                      -> "assemble"

\* the stage an error message names
StageOfMessage(m) ==
    CASE m \in {FileNotFoundMsg, EmptyDataMsg} -> "load"
      [] m = ColumnsMessage                    -> "clean"
      [] m = SamplesMessage                    -> "select"
      [] m \in {InfInXMsg, InfInYMsg}          -> "fit"
      [] m = InfInTargetsMsg                   -> "metrics"
      [] OTHER                                 -> "unknown"

IsPrefix(s, t) == Len(s) <= Len(t) /\ s = SubSeq(t, 1, Len(s))

\* C9: an error raised by a statement of process_csv is caught at line 79
\* and raised again once, as the prefix "ML processing error: " followed by
\* the original message, which names the stage that failed; the statements
\* run at most once each, in program order, and none runs after the one
\* that failed.
C9_State ==
    /\ IsPrefix(trace, StageOrder)
    /\ pc = "except" =>
          /\ exc # NoError
          /\ WrapPrefix \notin Range(exc)
          /\ StageOfMessage(exc) = Component(Last(trace))
    /\ pc = "main_except" \/ (pc = "exited" /\ stderr # <<>>) =>
          /\ Head(exc) = WrapPrefix
          /\ WrapPrefix \notin Range(Tail(exc))
          /\ StageOfMessage(Tail(exc)) = Component(Last(trace))
          /\ pc = "exited" => stderr = << [error |-> exc] >> /\ stdout = <<>>

C9_Step ==
    (pc \in {"except", "main_except"}) =>
        /\ trace' = trace
        /\ pc' \in {"main_except", "exited"}
        /\ pc = "main_except" => exc' = exc

FileNumericCount ==
    Cardinality({c \in DOMAIN file.header : InferDtype(file.rows, c) = "Numeric"})

\* C10: the column gate is evaluated before the sample gate and both before
\* the split: a table failing both gates fails with the columns error, and
\* a table failing either gate never reaches the split, fit, predict or
\* metric statements.
C10_GateOrder ==
    Loaded =>
        LET k == FileNumericCount
            n == Cardinality(CompleteRows)
        IN  /\ \A i, j \in DOMAIN trace :
                 /\ (trace[i] = "select_dtypes" /\ trace[j] = "check_samples")
                       => i < j
                 /\ (trace[i] = "check_samples" /\ trace[j] = "train_test_split")
                       => i < j
            /\ (k < 2 \/ n < 10) =>
                 Range(trace) \cap {"train_test_split", "fit", "predict",
                                    "metrics", "results"} = {}
            /\ (ProcessCsvDone /\ k < 2 /\ n < 10) =>
                 /\ FailedWith(ColumnsMessage)
                 /\ "check_samples" \notin Range(trace)
            /\ (ProcessCsvDone /\ k < 2) => FailedWith(ColumnsMessage)
            /\ (ProcessCsvDone /\ k >= 2 /\ n < 10) => FailedWith(SamplesMessage)

C10_Witness ==
    /\ FailedWith(ColumnsMessage)
    /\ FileNumericCount = 1
    /\ Len(file.rows) > 0
    /\ Cardinality(CompleteRows) < 10

====
